---- MODULE Spec2Model ----
(***************************************************************************)
(* RANSAC line fitting (src/RANSAC_line.cpp) and plane fitting             *)
(* (src/RANSAC_plane.cpp) as one state machine.  `prog' says which of the  *)
(* two programs the behaviour is a run of.                                 *)
(*                                                                         *)
(* Numbers.  Points have integer coordinates.  A double is modelled        *)
(* exactly, as hi * 1e10 + lo with hi an integer and lo a rational         *)
(* <<num, den>> in lowest terms: the only large magnitude the programs     *)
(* create is the sentinel 1e10, and every lo that occurs is far below it,  *)
(* so such numbers are ordered lexicographically.  A plane's unit normal   *)
(* n / |n| is kept as the integer vector n with |n|^2 in `scale2', and a   *)
(* distance q / sqrt(scale2) is compared with a tolerance by squaring.     *)
(***************************************************************************)
EXTENDS Integers, Sequences, FiniteSets, TLC

VARIABLES
    prog,           \* "line" | "plane" | "gate": which code is running
    pc,             \* position in run()
    data,           \* RANSAC::data, the point store
    max_iterations, \* RANSAC::max_iterations
    i,              \* the loop variable of run()
    result,         \* the model run() returned, once pc = "done"
    \* ---- RANSAC_line.cpp
    tolerance,      \* RANSAC::tolerance
    threshold,      \* RANSAC::threshold
    pt1, pt2,       \* the locals of line 70 and 71
    inner_pt2,      \* the pt2 declared in the body of the while of line 72
    consensus_set,  \* the local of line 75
    bestModel,      \* the local of line 66
    bestInLiers,    \* the local of line 67
    \* ---- RANSAC_plane.cpp
    error_tolerance,              \* RANSAC::error_tolerance
    min_consensus,                \* RANSAC::min_consensus
    indices,                      \* the shuffled indices of line 130-132
    found_valid_sample,           \* the local of line 136
    currentModel,                 \* the local of line 135
    currentConsensusSet,          \* the local of line 157
    bestInliersCount,             \* the local of line 123
    bestConsensusSet,             \* the local of line 124
    attempts_without_improvement  \* the local of line 125

lineVars == <<tolerance, threshold, pt1, pt2, inner_pt2, consensus_set,
              bestModel, bestInLiers>>
planeVars == <<error_tolerance, min_consensus, indices, found_valid_sample,
               currentModel, currentConsensusSet, bestInliersCount,
               bestConsensusSet, attempts_without_improvement>>
vars == <<prog, pc, data, max_iterations, i, result, lineVars, planeVars>>

----------------------------------------------------------------------------
(* Bounds of the model. *)
MaxIter == 3
MaxThreshold == 4

----------------------------------------------------------------------------
(* Exact arithmetic on the doubles the programs compute. *)

Abs(x) == IF x < 0 THEN -x ELSE x

Min(x, y) == IF x < y THEN x ELSE y

RECURSIVE GCD(_, _)
GCD(x, y) == IF y = 0 THEN x ELSE GCD(y, x % y)

\* The rational n / d (d # 0) in lowest terms with a positive denominator.
Rat(n, d) ==
    LET g == GCD(Abs(n), Abs(d))
        s == IF d < 0 THEN -1 ELSE 1
    IN  <<(s * n) \div g, (s * d) \div g>>

RAdd(p, q) == Rat(p[1] * q[2] + q[1] * p[2], p[2] * q[2])
RNeg(p) == <<-p[1], p[2]>>
RScale(p, k) == Rat(p[1] * k, p[2])
RLess(p, q) == p[1] * q[2] < q[1] * p[2]

\* hi * 1e10 + lo.
Num(hi, lo) == [hi |-> hi, lo |-> lo]
Real(n, d) == Num(0, Rat(n, d))
NAdd(x, y) == Num(x.hi + y.hi, RAdd(x.lo, y.lo))
NNeg(x) == Num(-x.hi, RNeg(x.lo))
NScale(x, k) == Num(x.hi * k, RScale(x.lo, k))
NLess(x, y) == x.hi < y.hi \/ (x.hi = y.hi /\ RLess(x.lo, y.lo))
NAbs(x) == IF NLess(x, Real(0, 1)) THEN NNeg(x) ELSE x

\* The sentinel 1e10 of LineModel's constructor and of computeDistance.
Sentinel == Num(1, Rat(0, 1))

RECURSIVE SumSeq(_, _, _)
\* The sum of f[points[k]] over k in from..Len(points): the accumulating loops.
SumSeq(points, f, from) ==
    IF from > Len(points) THEN 0
    ELSE f[points[from]] + SumSeq(points, f, from + 1)

----------------------------------------------------------------------------
(* RANSAC_line.cpp *)

\* LineModel() = default: m = 0, b = 0.
DefaultLineModel == [m |-> Real(0, 1), b |-> Real(0, 1)]

\* LineModel(p1, p2): the slope through the pair, or 1e10 for a vertical pair.
LineModel(p1, p2) ==
    LET m == IF p2[1] - p1[1] # 0
             THEN Real(p2[2] - p1[2], p2[1] - p1[1])
             ELSE Sentinel
    IN  [m |-> m, b |-> NAdd(Real(p1[2], 1), NNeg(NScale(m, p1[1])))]

\* |m * x + b - y|
computeError(model, pt) ==
    LET y_estimated == NAdd(NScale(model.m, pt[1]), model.b)
    IN  NAbs(NAdd(y_estimated, Real(-pt[2], 1)))

\* Ordinary least squares over `points'; the default model when denom = 0.
FitLeastSquares(points) ==
    LET n == Len(points)
        Pts == {points[k] : k \in 1..n}
        sumX == SumSeq(points, [p \in Pts |-> p[1]], 1)
        sumY == SumSeq(points, [p \in Pts |-> p[2]], 1)
        sumX2 == SumSeq(points, [p \in Pts |-> p[1] * p[1]], 1)
        sumXY == SumSeq(points, [p \in Pts |-> p[1] * p[2]], 1)
        denom == n * sumX2 - sumX * sumX
    IN  IF denom = 0 THEN DefaultLineModel
        ELSE LET m == Rat(n * sumXY - sumX * sumY, denom)
                 b == Rat(sumY * m[2] - m[1] * sumX, m[2] * n)
             IN  [m |-> Num(0, m), b |-> Num(0, b)]

\* Line 77: the points of the store with error below the tolerance, in order.
LineConsensus(model, points, tol) ==
    SelectSeq(points, LAMBDA pt : NLess(computeError(model, pt), tol))

\* LineImproves with != for >: any other size replaces the best.
LineImproves_Differs(size, best) == size # best

\* Line 79: consensus_set.size() > bestInLiers
LineImproves(size, best) == size > best

\* Line 83: bestInLiers >= threshold
LineConverged(best, thr) == best >= thr

----------------------------------------------------------------------------
(* RANSAC_plane.cpp *)

Zero3 == <<0, 0, 0>>
Sub3(p, q) == <<p[1] - q[1], p[2] - q[2], p[3] - q[3]>>
Neg3(v) == <<-v[1], -v[2], -v[3]>>
Scale3(v, k) == <<v[1] * k, v[2] * k, v[3] * k>>
Dot(u, v) == u[1] * v[1] + u[2] * v[2] + u[3] * v[3]
Cross(u, v) == <<u[2] * v[3] - u[3] * v[2],
                 u[3] * v[1] - u[1] * v[3],
                 u[1] * v[2] - u[2] * v[1]>>

\* What a Point3d member that no constructor wrote may hold: Eigen leaves a
\* fixed-size vector uninitialised, so its norm is either below 1e-9 (as the
\* zero vector) or above it (as any other vector).
Indeterminate == {Zero3, <<1, 0, 0>>}

\* The expression PlaneModel() of line 69, 120 and 185.  The constructor of
\* line 20 is defaulted, so this value-initialisation zeroes the object
\* first: a = b = c = d = 0 and `normal' is the zero vector.
DefaultPlaneModel ==
    [abc |-> Zero3, d |-> 0, scale2 |-> 1, normal |-> Zero3]

\* The declaration `PlaneModel currentModel;' of line 135: a = b = c = d = 0
\* from the member initialisers of line 17, while `normal' (line 18) has no
\* initialiser and holds `garbage'.
UninitPlaneModel(garbage) ==
    [abc |-> Zero3, d |-> 0, scale2 |-> 1, normal |-> garbage]

\* PlaneModel(pt1, pt2, pt3).  The unit normal is cross / |cross|: abc holds
\* cross and scale2 holds |cross|^2.  The degenerate branch of line 28-31
\* returns before `normal' is written.
PlaneModel3(p1, p2, p3, garbage) ==
    LET cross_product == Cross(Sub3(p2, p1), Sub3(p3, p1))
    IN  IF cross_product = Zero3
        THEN [abc |-> Zero3, d |-> 0, scale2 |-> 1, normal |-> garbage]
        ELSE [abc |-> cross_product, d |-> -Dot(cross_product, p1),
              scale2 |-> Dot(cross_product, cross_product),
              normal |-> cross_product]

\* PlaneModel(normal_vec, centroid) with centroid = sum / n: everything is
\* scaled by n, so abc = n * normal_vec and d = -(normal_vec . sum).
\* normalized() leaves a zero vector as it is.
PlaneModel2(normal_vec, sum, n) ==
    IF normal_vec = Zero3
    THEN [abc |-> Zero3, d |-> 0, scale2 |-> 1, normal |-> Zero3]
    ELSE [abc |-> Scale3(normal_vec, n), d |-> -Dot(normal_vec, sum),
          scale2 |-> n * n * Dot(normal_vec, normal_vec),
          normal |-> Scale3(normal_vec, n)]

\* The distance hi * 1e10 + q / sqrt(scale2) of pt to the plane: the
\* sentinel 1e10 when a^2 + b^2 + c^2 < 1e-18.
computeDistance(model, pt) ==
    IF Dot(model.abc, model.abc) = 0
    THEN [hi |-> 1, q |-> 0, scale2 |-> 1]
    ELSE [hi |-> 0, q |-> Abs(Dot(model.abc, pt) + model.d),
          scale2 |-> model.scale2]

\* normal.norm() > 1e-9
isValid(model) == model.normal # Zero3

\* dist < error_tolerance, for a distance of computeDistance.
DistLess(dist, tol) ==
    \/ dist.hi < tol.hi
    \/ /\ dist.hi = tol.hi
       /\ tol.lo[1] > 0
       /\ dist.q * dist.q * tol.lo[2] * tol.lo[2]
            < tol.lo[1] * tol.lo[1] * dist.scale2

\* Line 96: an invalid model has the empty consensus set.
ValidityGate(model) == isValid(model)

getConsensusSet(model, points, tol) ==
    IF ~ValidityGate(model) THEN <<>>
    ELSE SelectSeq(points, LAMBDA pt : DistLess(computeDistance(model, pt), tol))

areCollinear(p1, p2, p3) == Cross(Sub3(p2, p1), Sub3(p3, p1)) = Zero3

\* Line 138: the number of consecutive triples the scan looks at.
ScanLimit(n) == Min(10, n - 2)

\* std::shuffle of 0..n-1: any permutation (indices are 1-based here).
Shuffles(n) ==
    {p \in [1..n -> 1..n] : \A a, b \in 1..n : a # b => p[a] # p[b]}

RECURSIVE ScanFrom(_, _, _, _, _)
\* The loop of line 138-152 from `attempt' on, with currentModel = cur:
\* the model and found_valid_sample it ends with.
ScanFrom(points, idx, attempt, cur, garbage) ==
    IF attempt >= ScanLimit(Len(points)) \/ Len(idx) < 3
    THEN [model |-> cur, found |-> FALSE]
    ELSE LET p1 == points[idx[attempt + 1]]
             p2 == points[idx[attempt + 2]]
             p3 == points[idx[attempt + 3]]
             m == PlaneModel3(p1, p2, p3, garbage)
         IN  IF areCollinear(p1, p2, p3)
             THEN ScanFrom(points, idx, attempt + 1, cur, garbage)
             ELSE IF isValid(m) THEN [model |-> m, found |-> TRUE]
                  ELSE ScanFrom(points, idx, attempt + 1, m, garbage)

\* SkipsIteration with the `continue' lost.
SkipsIteration_Never(found) == FALSE

\* Line 154: if (!found_valid_sample) continue;
SkipsIteration(found) == ~found

\* PlaneImproves with >= for >: a tie replaces the best.
PlaneImproves_OrEqual(size, best) == size >= best

\* Line 160: currentConsensusSet.size() > bestInliersCount
PlaneImproves(size, best) == size > best

\* Line 126: max_attempts_without_improvement (integer division).
MaxAttemptsWithoutImprovement(maxIt) == maxIt \div 4

\* PlaneStops with >= for > in the stagnation test.
PlaneStops_AtLeast(best, attempts, maxIt, minCons) ==
    best >= minCons /\ attempts >= MaxAttemptsWithoutImprovement(maxIt)

\* Line 169-170: the early termination test.
PlaneStops(best, attempts, maxIt, minCons) ==
    best >= minCons /\ attempts > MaxAttemptsWithoutImprovement(maxIt)

RECURSIVE Sum3(_, _)
\* Line 72-73: the sum of the points from index `from' on.
Sum3(points, from) ==
    IF from > Len(points) THEN Zero3
    ELSE LET r == Sum3(points, from + 1)
             p == points[from]
         IN  <<p[1] + r[1], p[2] + r[2], p[3] + r[3]>>

\* v divided by the greatest common divisor of its components.
Primitive(v) ==
    LET g == GCD(GCD(Abs(v[1]), Abs(v[2])), Abs(v[3]))
    IN  IF g = 0 THEN v ELSE <<v[1] \div g, v[2] \div g, v[3] \div g>>

\* The directions standing for the unit vectors an SVD may return.
Directions ==
    {<<1, 0, 0>>, <<0, 1, 0>>, <<0, 0, 1>>, <<1, 1, 1>>,
     <<-1, 0, 0>>, <<0, -1, 0>>, <<0, 0, -1>>, <<-1, -1, -1>>}

\* Line 83-84: svd.matrixV().col(2), the right-singular vector of the least
\* singular value of the centred points.  JacobiSVD is a library: for
\* coplanar, non-collinear points it is the plane's normal up to sign; for
\* any other input it is some unit vector.
SvdColumns(points) ==
    LET n == Len(points)
        Normals == {Primitive(Cross(Sub3(points[b], points[a]),
                                    Sub3(points[c], points[a]))) :
                        a \in 1..n, b \in 1..n, c \in 1..n} \ {Zero3}
        Coplanar == /\ Normals # {}
                    /\ \A u \in Normals, k \in 1..n :
                           Dot(u, Sub3(points[k], points[1])) = 0
    IN  IF Coplanar THEN Normals ELSE Directions

\* fitModel with normal_vector = svd_col before the orientation of line 87.
fitModel(points, svd_col) ==
    IF Len(points) < 3 THEN DefaultPlaneModel
    ELSE LET sum == Sum3(points, 1)
             normal_vector == IF Dot(svd_col, sum) > 0
                              THEN Neg3(svd_col) ELSE svd_col
         IN  PlaneModel2(normal_vector, sum, Len(points))

----------------------------------------------------------------------------
(* The inputs the programs are run on. *)

\* Point stores for line fitting: the empty store, a single point, the
\* exact line y = 2x + 1, and a store with two three-point lines (y = x and
\* y = 2 - x), vertical pairs and pairs that gather two points only.
LineStores ==
    { <<>>,
      << <<1, 1>> >>,
      << <<0, 1>>, <<1, 3>>, <<2, 5>>, <<3, 7>> >>,
      << <<0, 0>>, <<1, 1>>, <<2, 2>>, <<0, 2>>, <<2, 0>> >> }

\* 0.01, 0.5 and 2e10.
LineTolerances == {Real(1, 100), Real(1, 2), Num(2, Rat(0, 1))}

\* Point stores for plane fitting: too few points, three collinear points,
\* a store with a repeated point, and four points in general position (the
\* plane x + y + z = 1 passes at 0.577 from the fourth, every other plane
\* through three of them at 1).
PlaneStores ==
    { <<>>,
      << <<0, 0, 0>>, <<1, 0, 0>> >>,
      << <<0, 0, 0>>, <<1, 1, 1>>, <<2, 2, 2>> >>,
      << <<0, 0, 0>>, <<0, 0, 0>>, <<1, 0, 0>>, <<0, 1, 0>> >>,
      << <<0, 0, 0>>, <<1, 0, 0>>, <<0, 1, 0>>, <<0, 0, 1>> >> }

\* 0.4, 1 and 2e10.
PlaneTolerances == {Real(2, 5), Real(1, 1), Num(2, Rat(0, 1))}

Budgets == 0..MaxIter
Thresholds == 1..MaxThreshold

\* The value of a local that has not been assigned yet.
Unset == <<>>

LineIdle ==
    /\ tolerance = Unset /\ threshold = 0
    /\ pt1 = Unset /\ pt2 = Unset /\ inner_pt2 = Unset
    /\ consensus_set = <<>>
    /\ bestModel = DefaultLineModel
    /\ bestInLiers = 0

PlaneIdle ==
    /\ error_tolerance = Unset /\ min_consensus = 0
    /\ indices = <<>>
    /\ found_valid_sample = FALSE
    /\ currentModel = Unset
    /\ currentConsensusSet = <<>>
    /\ bestInliersCount = 0
    /\ bestConsensusSet = <<>>
    /\ attempts_without_improvement = 0

\* RANSAC(points, tolerance, max_iterations, threshold) and line 66-67.
LineInit ==
    /\ prog = "line"
    /\ pc = "loop"
    /\ data \in LineStores
    /\ max_iterations \in Budgets
    /\ i = 0
    /\ result = Unset
    /\ tolerance \in LineTolerances
    /\ threshold \in Thresholds
    /\ pt1 = Unset /\ pt2 = Unset /\ inner_pt2 = Unset
    /\ consensus_set = <<>>
    /\ bestModel = DefaultLineModel
    /\ bestInLiers = 0
    /\ PlaneIdle

\* RANSAC(points, error_tolerance, max_iterations, min_consensus).
PlaneInit ==
    /\ prog = "plane"
    /\ pc = "entry"
    /\ data \in PlaneStores
    /\ max_iterations \in Budgets
    /\ i = 0
    /\ result = Unset
    /\ error_tolerance \in PlaneTolerances
    /\ min_consensus \in Thresholds
    /\ indices = <<>>
    /\ found_valid_sample = FALSE
    /\ currentModel = Unset
    /\ currentConsensusSet = <<>>
    /\ bestInliersCount = 0
    /\ bestConsensusSet = <<>>
    /\ attempts_without_improvement = 0
    /\ LineIdle

Init == LineInit \/ PlaneInit

----------------------------------------------------------------------------
(* run() of RANSAC_line.cpp *)

\* Line 69-71: the loop test, then two draws of rand() % data.size().
LineDraw ==
    /\ prog = "line" /\ pc = "loop"
    /\ i < max_iterations
    /\ Len(data) > 0
    /\ \E k1 \in 1..Len(data), k2 \in 1..Len(data) :
           /\ pt1' = data[k1]
           /\ pt2' = data[k2]
    /\ pc' = "while"
    /\ UNCHANGED <<prog, data, max_iterations, i, result, tolerance, threshold,
                   inner_pt2, consensus_set, bestModel, bestInLiers, planeVars>>

\* Line 70 on an empty store: rand() % 0 is an integer division by zero.
\* It traps, or yields an index into an empty vector: the run faults.
LineDrawFault ==
    /\ prog = "line" /\ pc = "loop"
    /\ i < max_iterations
    /\ Len(data) = 0
    /\ pc' = "crashed"
    /\ UNCHANGED <<prog, data, max_iterations, i, result, lineVars, planeVars>>

\* Line 72, condition true: the body declares a new pt2, initialises it with
\* a fresh draw and drops it; the pt2 of line 71 keeps its value.
LineRedraw ==
    /\ prog = "line" /\ pc = "while"
    /\ pt1 = pt2
    /\ \E k \in 1..Len(data) : inner_pt2' = data[k]
    /\ UNCHANGED <<prog, pc, data, max_iterations, i, result, tolerance,
                   threshold, pt1, pt2, consensus_set, bestModel, bestInLiers,
                   planeVars>>

\* Line 72, condition false, then line 74-83: the candidate, its consensus
\* set, the update of the best, and the threshold test.  (The locals are
\* bound over singleton sets, so that each is computed once.)
LineEvaluate ==
    /\ prog = "line" /\ pc = "while"
    /\ pt1 # pt2
    /\ \E model \in {LineModel(pt1, pt2)} :
       \E cs \in {LineConsensus(model, data, tolerance)} :
       \E improves \in {LineImproves(Len(cs), bestInLiers)} :
       \E best \in {IF improves THEN Len(cs) ELSE bestInLiers} :
           /\ consensus_set' = cs
           /\ bestInLiers' = best
           /\ bestModel' = IF improves THEN FitLeastSquares(cs) ELSE bestModel
           /\ IF LineConverged(best, threshold)
              THEN pc' = "return" /\ i' = i
              ELSE pc' = "loop" /\ i' = i + 1
    /\ UNCHANGED <<prog, data, max_iterations, result, tolerance, threshold,
                   pt1, pt2, inner_pt2, planeVars>>

\* Line 69: the loop test fails.
LineExhausted ==
    /\ prog = "line" /\ pc = "loop"
    /\ i >= max_iterations
    /\ pc' = "return"
    /\ UNCHANGED <<prog, data, max_iterations, i, result, lineVars, planeVars>>

\* Line 87: return bestModel.
LineReturn ==
    /\ prog = "line" /\ pc = "return"
    /\ result' = bestModel
    /\ pc' = "done"
    /\ UNCHANGED <<prog, data, max_iterations, i, lineVars, planeVars>>

----------------------------------------------------------------------------
(* run() of RANSAC_plane.cpp *)

\* Line 118-121: fewer than three points.
PlaneInsufficient ==
    /\ prog = "plane" /\ pc = "entry"
    /\ Len(data) < 3
    /\ result' = DefaultPlaneModel
    /\ pc' = "done"
    /\ UNCHANGED <<prog, data, max_iterations, i, lineVars, planeVars>>

\* Line 118 and 123-126: enough points, the locals are set up.
PlaneBegin ==
    /\ prog = "plane" /\ pc = "entry"
    /\ Len(data) >= 3
    /\ bestInliersCount' = 0
    /\ bestConsensusSet' = <<>>
    /\ attempts_without_improvement' = 0
    /\ pc' = "loop"
    /\ UNCHANGED <<prog, data, max_iterations, i, result, lineVars,
                   error_tolerance, min_consensus, indices, found_valid_sample,
                   currentModel, currentConsensusSet>>

\* Line 128-172: one iteration of the loop.
PlaneIteration ==
    /\ prog = "plane" /\ pc = "loop"
    /\ i < max_iterations
    /\ \E idx \in Shuffles(Len(data)), garbage \in Indeterminate :
         LET scan == ScanFrom(data, idx, 0, UninitPlaneModel(garbage), garbage)
             cs == getConsensusSet(scan.model, data, error_tolerance)
             improves == PlaneImproves(Len(cs), bestInliersCount)
             best == IF improves THEN Len(cs) ELSE bestInliersCount
             attempts == IF improves THEN 0
                         ELSE attempts_without_improvement + 1
         IN  /\ indices' = idx
             /\ currentModel' = scan.model
             /\ found_valid_sample' = scan.found
             /\ IF SkipsIteration(scan.found)
                THEN /\ i' = i + 1
                     /\ pc' = "loop"
                     /\ UNCHANGED <<currentConsensusSet, bestInliersCount,
                                    bestConsensusSet,
                                    attempts_without_improvement>>
                ELSE /\ currentConsensusSet' = cs
                     /\ bestInliersCount' = best
                     /\ bestConsensusSet' =
                            IF improves THEN cs ELSE bestConsensusSet
                     /\ attempts_without_improvement' = attempts
                     /\ IF PlaneStops(best, attempts, max_iterations,
                                      min_consensus)
                        THEN pc' = "final" /\ i' = i
                        ELSE pc' = "loop" /\ i' = i + 1
    /\ UNCHANGED <<prog, data, max_iterations, result, lineVars,
                   error_tolerance, min_consensus>>

\* Line 128: the loop test fails.
PlaneExhausted ==
    /\ prog = "plane" /\ pc = "loop"
    /\ i >= max_iterations
    /\ pc' = "final"
    /\ UNCHANGED <<prog, data, max_iterations, i, result, lineVars, planeVars>>

\* EnoughToFit with > for >=.
EnoughToFit_MoreThan(points) == Len(points) # 0 /\ Len(points) > 3

\* Line 176: !bestConsensusSet.empty() && bestConsensusSet.size() >= 3
EnoughToFit(points) == Len(points) # 0 /\ Len(points) >= 3

\* Line 175-186: the final fit, or the default model.
PlaneFinal ==
    /\ prog = "plane" /\ pc = "final"
    /\ IF EnoughToFit(bestConsensusSet)
       THEN \E svd_col \in SvdColumns(bestConsensusSet) :
              LET finalModel == fitModel(bestConsensusSet, svd_col)
              IN  result' = IF isValid(finalModel) THEN finalModel
                            ELSE DefaultPlaneModel
       ELSE result' = DefaultPlaneModel
    /\ pc' = "done"
    /\ UNCHANGED <<prog, data, max_iterations, i, lineVars, planeVars>>

----------------------------------------------------------------------------
(* getConsensusSet as a function of its inputs: any store, any tolerance and
   any model the class can build. *)

GatePoints ==
    {<<0, 0, 0>>, <<1, 0, 0>>, <<0, 1, 0>>, <<0, 0, 1>>, <<1, 1, 1>>,
     <<2, 2, 2>>}

GateModels ==
    {DefaultPlaneModel}
    \cup {UninitPlaneModel(g) : g \in Indeterminate}
    \cup {PlaneModel3(p1, p2, p3, g) :
             p1 \in GatePoints, p2 \in GatePoints, p3 \in GatePoints,
             g \in Indeterminate}

GateInit ==
    /\ prog = "gate"
    /\ pc = "call"
    /\ data \in PlaneStores
    /\ max_iterations = 0
    /\ i = 0
    /\ result = Unset
    /\ error_tolerance \in PlaneTolerances
    /\ min_consensus = 0
    /\ indices = <<>>
    /\ found_valid_sample = FALSE
    /\ currentModel \in GateModels
    /\ currentConsensusSet = <<>>
    /\ bestInliersCount = 0
    /\ bestConsensusSet = <<>>
    /\ attempts_without_improvement = 0
    /\ LineIdle

\* Line 94-104: one call of getConsensusSet(currentModel).
GateApply ==
    /\ prog = "gate" /\ pc = "call"
    /\ currentConsensusSet' =
           getConsensusSet(currentModel, data, error_tolerance)
    /\ pc' = "returned"
    /\ UNCHANGED <<prog, data, max_iterations, i, result, lineVars,
                   error_tolerance, min_consensus, indices, found_valid_sample,
                   currentModel, bestInliersCount, bestConsensusSet,
                   attempts_without_improvement>>

GateSpec == GateInit /\ [][GateApply]_vars

----------------------------------------------------------------------------
Next ==
    \/ LineDraw
    \/ LineDrawFault
    \/ LineRedraw
    \/ LineEvaluate
    \/ LineExhausted
    \/ LineReturn
    \/ PlaneInsufficient
    \/ PlaneBegin
    \/ PlaneIteration
    \/ PlaneExhausted
    \/ PlaneFinal

Spec == Init /\ [][Next]_vars

\* The steps of run() in RANSAC_line.cpp.
LineNext ==
    \/ LineDraw
    \/ LineDrawFault
    \/ LineRedraw
    \/ LineEvaluate
    \/ LineExhausted
    \/ LineReturn

\* The line program alone.  run() is sequential code: it takes its next step
\* whenever it has one.
LineSpec == LineInit /\ [][LineNext]_vars
LineFairSpec == LineSpec /\ WF_vars(LineNext)

----------------------------------------------------------------------------
(* The claims. *)

\* The minimal sample of the running program: 2 points for a line, 3 for a
\* plane.
TooFewPoints ==
    \/ prog = "line" /\ Len(data) < 2
    \/ prog = "plane" /\ Len(data) < 3

\* C1: on a store with fewer points than the minimal sample, run() never
\* faults, and the model it returns is the default one (m = b = 0 for the
\* line; a = b = c = d = 0 and an invalid normal for the plane).
C1_DegenerateInputFails ==
    TooFewPoints =>
        /\ pc # "crashed"
        /\ pc = "done" =>
              \/ prog = "line" /\ result = DefaultLineModel
              \/ prog = "plane" /\ result = DefaultPlaneModel

\* Some two points of the store differ.
HasTwoDistinct(points) ==
    \E a \in 1..Len(points), b \in 1..Len(points) : points[a] # points[b]

\* C2: on a store with two distinct points the line run() always returns:
\* every coincident pair is redrawn until it differs, and the iteration then
\* completes.
C2_LineTerminates ==
    <>(prog # "line" \/ ~HasTwoDistinct(data) \/ pc = "done")

ExactLine == << <<0, 1>>, <<1, 3>>, <<2, 5>>, <<3, 7>> >>

ExactCase ==
    /\ prog = "line"
    /\ data = ExactLine
    /\ tolerance = Real(1, 100)
    /\ max_iterations >= 1

\* C3: on (0,1),(1,3),(2,5),(3,7) with tolerance 0.01 and a budget of at
\* least one iteration, run() returns, whatever the draws, the model m = 2,
\* b = 1, under which all four points are inliers.
C3_ExactRoundTrip ==
    <>(ExactCase =>
         /\ pc = "done"
         /\ result.m = Real(2, 1)
         /\ result.b = Real(1, 1)
         /\ Len(LineConsensus(result, data, tolerance)) = 4)

\* C4: in both controllers the best inlier count starts at 0, never
\* decreases, and changes only to the size of the consensus set of the
\* iteration that changes it.
C4_InlierMonotonic ==
    /\ bestInLiers = 0 /\ bestInliersCount = 0
    /\ [][/\ bestInLiers' >= bestInLiers
          /\ bestInliersCount' >= bestInliersCount
          /\ bestInLiers' # bestInLiers =>
                bestInLiers' = Len(consensus_set')
          /\ bestInliersCount' # bestInliersCount =>
                bestInliersCount' = Len(currentConsensusSet')]_vars

\* A later iteration of the line controller gathered fewer inliers than the
\* best, and the best stayed.
C4_Witness ==
    /\ prog = "line" /\ i >= 2
    /\ bestInLiers = 3
    /\ Len(consensus_set) = 2

C6_LineConvergence ==
    /\ [][(prog = "line" /\ pc = "loop" /\ pc' = "while") =>
             bestInLiers < threshold]_vars
    /\ <>(prog = "line" /\ Len(data) >= 2 =>
             /\ pc = "done"
             /\ result = bestModel
             /\ bestInLiers >= threshold \/ i = max_iterations)

\* C7: the plane run() returns a valid model exactly when the best consensus
\* set it ends with has at least 3 points; otherwise it returns the default
\* model, which is not valid.
C7_FailedVersusExhausted ==
    (prog = "plane" /\ pc = "done") =>
        /\ isValid(result) <=> Len(bestConsensusSet) >= 3
        /\ Len(bestConsensusSet) < 3 =>
              result = DefaultPlaneModel /\ ~isValid(result)

\* The budget ran out below the threshold and a fitted model was returned.
C7_Witness ==
    /\ prog = "plane" /\ pc = "done"
    /\ i = max_iterations
    /\ bestInliersCount < min_consensus
    /\ Len(bestConsensusSet) >= 3
    /\ isValid(result)

\* C8: getConsensusSet returns the empty set for every model with
\* a = b = c = 0, and for any other model exactly the points of the store at
\* a distance below the tolerance, in store order.
C8_ValidityGate ==
    (prog = "gate" /\ pc = "returned") =>
        IF currentModel.abc = Zero3
        THEN currentConsensusSet = <<>>
        ELSE currentConsensusSet =
                 SelectSeq(data, LAMBDA pt :
                     DistLess(computeDistance(currentModel, pt),
                              error_tolerance))

\* Every triple the scan of line 138-152 looks at in idx is collinear.
AllScannedCollinear(points, idx) ==
    \A attempt \in 0..(Min(10, Len(points) - 2) - 1) :
        areCollinear(points[idx[attempt + 1]], points[idx[attempt + 2]],
                     points[idx[attempt + 3]])

\* C9: the scan reads at most min(10, n - 2) triples, all inside the store,
\* and an iteration in which all of them are collinear changes nothing but
\* the iteration counter.
C9_SkippedIterationFrame ==
    /\ [](prog = "plane" /\ Len(data) >= 3 =>
             /\ ScanLimit(Len(data)) <= Min(10, Len(data) - 2)
             /\ \A attempt \in 0..(ScanLimit(Len(data)) - 1) :
                    attempt + 3 <= Len(data))
    /\ [][(prog = "plane" /\ pc = "loop" /\ i < max_iterations
             /\ AllScannedCollinear(data, indices')) =>
            /\ i' = i + 1
            /\ pc' = "loop"
            /\ UNCHANGED <<bestInliersCount, bestConsensusSet,
                           attempts_without_improvement>>]_vars

\* An iteration was skipped after a best consensus set had been found.
C9_Witness ==
    /\ prog = "plane" /\ pc = "loop"
    /\ i >= 2
    /\ ~found_valid_sample
    /\ AllScannedCollinear(data, indices)
    /\ bestInliersCount >= 3

\* C10: the best result and the best count change only in an iteration
\* whose consensus set is strictly larger than the best count, and in the
\* plane controller bestInliersCount is the size of bestConsensusSet.
C10_FirstBestWinsTies ==
    /\ [](prog = "plane" => bestInliersCount = Len(bestConsensusSet))
    /\ [][/\ (bestModel' # bestModel \/ bestInLiers' # bestInLiers) =>
                Len(consensus_set') > bestInLiers
          /\ (bestConsensusSet' # bestConsensusSet
                \/ bestInliersCount' # bestInliersCount) =>
                /\ found_valid_sample'
                /\ Len(currentConsensusSet') > bestInliersCount]_vars

\* An iteration gathered as many inliers as the best, but other points, and
\* the first set was kept.
C10_Witness ==
    /\ prog = "plane" /\ i >= 2
    /\ found_valid_sample
    /\ Len(currentConsensusSet) = bestInliersCount
    /\ currentConsensusSet # bestConsensusSet

====
